---- MODULE Spec2Model ----
(***************************************************************************)
(* A model of jsq: the leading-dot rewriter (utils.js, expandShorthands),  *)
(* one run of the command line tool (main) over the session cache, a       *)
(* writeCache of one process beside a readCache of another, the build of   *)
(* the vm context, a call of a function binding, a call of parse and a     *)
(* call of readStdin.                                                      *)
(*                                                                         *)
(* Text is a sequence of one-character strings.  Offsets are 0-based and   *)
(* ranges half-open, as in JavaScript: Slice(s, a, b) is s.slice(a, b).    *)
(***************************************************************************)
EXTENDS Integers, Sequences, FiniteSets, TLC

VARIABLES
  expression,   \* the rewriter: the text given to expandShorthands
  replacement,  \* the rewriter: the replacement given to it
  result,       \* the rewriter: what the call returned
  again,        \* the rewriter: what the call on that result returned
  rpc,          \* the rewriter: "input", "expanded", "twice"; "off" in a run
  cacheFile,    \* the cache file: whether it exists and what it holds
  pc,           \* where main is: "idle", "running", "done"; "off" in the rewriter
  opts,         \* the options of the run (argv) and what is piped
  userContext,  \* main's userContext
  context,      \* the vm context: name -> [origin, value]
  script,       \* the expression to run and what it did so far
  status,       \* how the run ended and what it touched
  saving,       \* a writeCache under way: where fs.writeFile is, the record
                \* it writes, and what readCache gave before it began
  loading,      \* a readCache beside it: whether it returned, and what
  calling,      \* a call of a function binding: its template, its
                \* arguments, the command it built and what it returned
  parsing,      \* a call of parse: its arguments and its outcome
  reading       \* a call of readStdin: the pipe, the listeners, the body

rvars == <<expression, replacement, result, again, rpc>>

mvars == <<cacheFile, pc, opts, userContext, context, script, status>>

svars == <<saving, loading>>

uvars == <<calling, parsing, reading>>

vars == <<expression, replacement, result, again, rpc,
          cacheFile, pc, opts, userContext, context, script, status,
          saving, loading, calling, parsing, reading>>

\* ------------------------------------------------------------------ text

Slice(s, a, b) == SubSeq(s, a + 1, b)

SliceFrom(s, a) == SubSeq(s, a + 1, Len(s))

\* s.charAt(p); "" past the end of the text
CharAt(s, p) == IF p >= 0 /\ p < Len(s) THEN s[p + 1] ELSE ""

\* the characters of the model's alphabet, by lexical class
Letters == {"a", "b", "g", "h", "i", "l", "n", "p", "s", "t", "u", "_"}

Digits == {"5"}

Blank == {" "}

\* the character U+0060, which a TLA+ string cannot hold; also the label of
\* the token type of that character
BackQuote == "BQ"

\* String.prototype.trim() === '' : nothing but white space
IsBlank(s) == \A k \in 1..Len(s) : s[k] \in Blank

\* ------------------------------------------------- acorn's token types

\* the reserved words that can be spelled with Letters
KeywordWords == { <<"t", "h", "i", "s">>, <<"n", "u", "l", "l">>, <<"i", "n">> }

WordLabel(w) ==
  IF w = <<"t", "h", "i", "s">> THEN "this"
  ELSE IF w = <<"n", "u", "l", "l">> THEN "null"
  ELSE IF w = <<"i", "n">> THEN "in"
  ELSE "name"

KeywordLabels == {"this", "null", "in"}

\* TokenType.beforeExpr of the token types without an updateContext of
\* their own
BeforeExpr(label) == label \in {"[", "?", "??", "/", "*", "**", "...", "in"}

\* Parser.prototype.updateContext: whether a "/" after this token starts a
\* regular expression
ExprAllowedAfter(label, prevLabel) ==
  IF label \in KeywordLabels /\ prevLabel = "." THEN FALSE
  ELSE IF label \in {"name", BackQuote} THEN FALSE
  ELSE BeforeExpr(label)

\* ----------------------------------------------------- acorn's scanners

\* the end of the run of characters of set S that starts at p
RECURSIVE RunEnd(_, _, _)
RunEnd(s, p, S) == IF CharAt(s, p) \in S THEN RunEnd(s, p + 1, S) ELSE p

\* the offset of the first c at or after p, -1 when there is none
RECURSIVE IndexOf(_, _, _)
IndexOf(s, c, p) ==
  IF p >= Len(s) THEN -1
  ELSE IF s[p + 1] = c THEN p
  ELSE IndexOf(s, c, p + 1)

\* indexOf("*/", p)
RECURSIVE IndexOfCommentEnd(_, _)
IndexOfCommentEnd(s, p) ==
  IF p + 1 >= Len(s) THEN -1
  ELSE IF s[p + 1] = "*" /\ s[p + 2] = "/" THEN p
  ELSE IndexOfCommentEnd(s, p + 1)

\* skipSpace: the offset of the next token, -1 for an unterminated block
\* comment.  A line comment runs to the end of the text (the alphabet has
\* no line break).
RECURSIVE SkipSpace(_, _)
SkipSpace(s, p) ==
  IF CharAt(s, p) \in Blank THEN SkipSpace(s, p + 1)
  ELSE IF CharAt(s, p) = "/" /\ CharAt(s, p + 1) = "*"
    THEN LET e == IndexOfCommentEnd(s, p + 2)
         IN  IF e = -1 THEN -1 ELSE SkipSpace(s, e + 2)
  ELSE IF CharAt(s, p) = "/" /\ CharAt(s, p + 1) = "/" THEN Len(s)
  ELSE p

\* the comments skipSpace skips from p on, as ranges
RECURSIVE CommentsFrom(_, _)
CommentsFrom(s, p) ==
  IF CharAt(s, p) \in Blank THEN CommentsFrom(s, p + 1)
  ELSE IF CharAt(s, p) = "/" /\ CharAt(s, p + 1) = "*"
    THEN LET e == IndexOfCommentEnd(s, p + 2)
         IN  IF e = -1 THEN <<>>
             ELSE <<[start |-> p, end |-> e + 2]>> \o CommentsFrom(s, e + 2)
  ELSE IF CharAt(s, p) = "/" /\ CharAt(s, p + 1) = "/"
    THEN <<[start |-> p, end |-> Len(s)]>>
  ELSE <<>>

\* readRegexp's scan: the offset of the "/" that closes the body starting
\* at p, -1 when the text ends first
RECURSIVE RegexpEnd(_, _, _)
RegexpEnd(s, p, inClass) ==
  IF p >= Len(s) THEN -1
  ELSE IF CharAt(s, p) = "[" THEN RegexpEnd(s, p + 1, TRUE)
  ELSE IF CharAt(s, p) = "]" /\ inClass THEN RegexpEnd(s, p + 1, FALSE)
  ELSE IF CharAt(s, p) = "/" /\ ~inClass THEN p
  ELSE RegexpEnd(s, p + 1, inClass)

\* validateRegExpFlags
ValidFlags == {"d", "g", "i", "m", "s", "u", "v", "y"}

FlagsOk(f) ==
  /\ \A k \in 1..Len(f) : f[k] \in ValidFlags
  /\ \A j, k \in 1..Len(f) : j # k => f[j] # f[k]
  /\ ~(\E j, k \in 1..Len(f) : f[j] = "u" /\ f[k] = "v")

\* validateRegExpPattern without the u flag: every quantifier follows an
\* atom ("Nothing to repeat" otherwise).  mode is "start", "atom" (a
\* quantifier may follow), "quant" (a lazy "?" may follow) or "class".
RECURSIVE PatternOk(_, _, _)
PatternOk(b, k, mode) ==
  IF k > Len(b) THEN mode # "class"
  ELSE IF mode = "class"
    THEN PatternOk(b, k + 1, IF b[k] = "]" THEN "atom" ELSE "class")
  ELSE IF b[k] = "[" THEN PatternOk(b, k + 1, "class")
  ELSE IF b[k] \in {"*", "?"}
    THEN IF mode = "atom" THEN PatternOk(b, k + 1, "quant")
         ELSE IF mode = "quant" /\ b[k] = "?" THEN PatternOk(b, k + 1, "start")
         ELSE FALSE
  ELSE PatternOk(b, k + 1, "atom")

\* One token read at offset p (white space already skipped, p inside the
\* text): [ok, label, end]; ok = FALSE when acorn raises a SyntaxError.
Bad == [ok |-> FALSE, label |-> "", end |-> 0]

Tok(label, end) == [ok |-> TRUE, label |-> label, end |-> end]

\* readWord
ReadWord(s, p) ==
  LET e == RunEnd(s, p, Letters \cup Digits)
  IN  Tok(WordLabel(Slice(s, p, e)), e)

\* readNumber(startsWithDot), for decimal digits
ReadNumber(s, p, startsWithDot) ==
  LET e1 == IF startsWithDot THEN p ELSE RunEnd(s, p, Digits)
  IN  IF ~startsWithDot /\ CharAt(s, e1) = "n"
        THEN IF CharAt(s, e1 + 1) \in Letters THEN Bad ELSE Tok("num", e1 + 1)
      ELSE LET e2 == IF CharAt(s, e1) = "." THEN RunEnd(s, e1 + 1, Digits) ELSE e1
           IN  IF CharAt(s, e2) \in Letters THEN Bad ELSE Tok("num", e2)

\* readToken_dot
ReadDot(s, p) ==
  IF CharAt(s, p + 1) \in Digits THEN ReadNumber(s, p, TRUE)
  ELSE IF CharAt(s, p + 1) = "." /\ CharAt(s, p + 2) = "." THEN Tok("...", p + 3)
  ELSE Tok(".", p + 1)

\* readString
ReadString(s, p) ==
  LET e == IndexOf(s, CharAt(s, p), p + 1)
  IN  IF e = -1 THEN Bad ELSE Tok("string", e + 1)

\* readToken_slash, readRegexp
ReadSlash(s, p, exprAllowed) ==
  IF ~exprAllowed THEN Tok("/", p + 1)
  ELSE LET e == RegexpEnd(s, p + 1, FALSE)
           f == RunEnd(s, e + 1, Letters \cup Digits)
       IN  IF e = -1 THEN Bad
           ELSE IF ~FlagsOk(Slice(s, e + 1, f)) THEN Bad
           ELSE IF ~PatternOk(Slice(s, p + 1, e), 1, "start") THEN Bad
           ELSE Tok("regexp", f)

\* readToken_question
ReadQuestion(s, p) ==
  IF CharAt(s, p + 1) = "." /\ CharAt(s, p + 2) \notin Digits THEN Tok("?.", p + 2)
  ELSE IF CharAt(s, p + 1) = "?" THEN Tok("??", p + 2)
  ELSE Tok("?", p + 1)

\* readToken_mult_modulo_exp
ReadStar(s, p) ==
  IF CharAt(s, p + 1) = "*" THEN Tok("**", p + 2) ELSE Tok("*", p + 1)

\* readToken / getTokenFromCode
ReadToken(s, p, exprAllowed) ==
  LET c == CharAt(s, p)
  IN  IF c \in Letters THEN ReadWord(s, p)
      ELSE IF c = "." THEN ReadDot(s, p)
      ELSE IF c \in Digits THEN ReadNumber(s, p, FALSE)
      ELSE IF c = "\"" THEN ReadString(s, p)
      ELSE IF c = BackQuote THEN Tok(BackQuote, p + 1)
      ELSE IF c = "/" THEN ReadSlash(s, p, exprAllowed)
      ELSE IF c = "*" THEN ReadStar(s, p)
      ELSE IF c = "?" THEN ReadQuestion(s, p)
      ELSE IF c \in {"[", "]"} THEN Tok(c, p + 1)
      ELSE Bad

\* readTmplToken, inside a template (no white space is skipped there)
ReadTmplToken(s, p, prevLabel) ==
  LET e == IndexOf(s, BackQuote, p)
  IN  IF e = -1 THEN Bad
      ELSE IF e = p /\ prevLabel = "template" THEN Tok(BackQuote, p + 1)
      ELSE Tok("template", e)

\* [...acorn.tokenizer(expression, { ecmaVersion: 'latest' })]: the tokens
\* before the end of the text, each [label, start, end], and the comments
\* skipped between them, each [start, end];
\* [ok |-> FALSE] when the tokenizer raises.
RECURSIVE Lex(_, _, _, _, _, _, _)
Lex(s, p, exprAllowed, inTmpl, prevLabel, acc, com) ==
  LET q == IF inTmpl THEN p ELSE SkipSpace(s, p)
      c == IF inTmpl THEN com ELSE com \o CommentsFrom(s, p)
  IN  IF q = -1 THEN [ok |-> FALSE, tokens |-> <<>>, comments |-> <<>>]
      ELSE IF q >= Len(s) THEN [ok |-> TRUE, tokens |-> acc, comments |-> c]
      ELSE LET t == IF inTmpl THEN ReadTmplToken(s, q, prevLabel)
                    ELSE ReadToken(s, q, exprAllowed)
           IN  IF ~t.ok THEN [ok |-> FALSE, tokens |-> <<>>, comments |-> <<>>]
               ELSE Lex(s, t.end,
                        ExprAllowedAfter(t.label, prevLabel),
                        IF t.label = BackQuote THEN ~inTmpl ELSE inTmpl,
                        t.label,
                        Append(acc, [label |-> t.label, start |-> q, end |-> t.end]),
                        c)

Tokenize(s) == Lex(s, 0, TRUE, FALSE, "eof", <<>>, <<>>)

\* ------------------------------------------------ utils.js, the rewriter

NON_SHORTHAND_LABELS == {"name", "num", "]", ")", "}", "null", "true", "false"}

\* tokens[i]?.type.label, for the 1-based i
LabelAt(tokens, i) ==
  IF i >= 1 /\ i <= Len(tokens) THEN tokens[i].label ELSE "undefined"

\* a slip: the token's text is looked at, not its type
IsDotByText(e, tokens, i) == CharAt(e, tokens[i].start) = "."

\* token.type.label !== '.' : only dot tokens are looked at
IsDot(e, tokens, i) == tokens[i].label = "."

\* Ignore foo.bar
IsPropertyAccess(tokens, i) ==
  /\ LabelAt(tokens, i + 1) = "name"
  /\ LabelAt(tokens, i - 1) \in NON_SHORTHAND_LABELS

\* a slip: the number has to touch the dot
IsDecimalNumberAdjacent(e, tokens, i) ==
  /\ LabelAt(tokens, i + 1) = "num"
  /\ tokens[i].end = tokens[i + 1].start

\* Ignore 1.5
IsDecimalNumber(e, tokens, i) ==
  /\ LabelAt(tokens, i + 1) = "num"
  /\ IsBlank(Slice(e, tokens[i].end, tokens[i + 1].start))

\* a slip: the dot is never kept
NextCursorAfterDot(tokens, i) == tokens[i].end

\* a slip: the dot is always kept
NextCursorAtDot(tokens, i) == tokens[i].start

\* .prop keeps the dot, a lone . does not
NextCursor(tokens, i) ==
  IF LabelAt(tokens, i + 1) = "name" THEN tokens[i].start ELSE tokens[i].end

\* a slip: the rewritten dot stays a dot for the token after it
RelabelForgotten(tokens, i) == tokens

\* Next token needs to see this one as a name
Relabel(tokens, i) == [tokens EXCEPT ![i].label = "name"]

\* the for loop of expandShorthands, from token i on
RECURSIVE ExpandLoop(_, _, _, _, _, _)
ExpandLoop(e, b, tokens, i, res, cursor) ==
  IF i > Len(tokens)
    THEN [ok |-> TRUE, text |-> res \o SliceFrom(e, cursor), tokens |-> tokens]
  ELSE IF ~IsDot(e, tokens, i) THEN ExpandLoop(e, b, tokens, i + 1, res, cursor)
  ELSE IF IsPropertyAccess(tokens, i) \/ IsDecimalNumber(e, tokens, i)
    THEN ExpandLoop(e, b, tokens, i + 1, res, cursor)
  ELSE ExpandLoop(e, b, Relabel(tokens, i), i + 1,
                  res \o Slice(e, cursor, tokens[i].start) \o b,
                  NextCursor(tokens, i))

\* the outcome of a call that raised
Raised == [ok |-> FALSE, text |-> <<>>, tokens |-> <<>>]

\* expandShorthands(expression, replacement): [ok, text, tokens], where
\* text is the returned string and tokens the token array as the loop left
\* it; ok = FALSE when the tokenizer's SyntaxError propagates to the caller
expandShorthands(e, b) ==
  LET t == Tokenize(e)
  IN  IF ~t.ok THEN Raised ELSE ExpandLoop(e, b, t.tokens, 1, <<>>, 0)

\* ------------------------------------------------------- main: the data

\* a JavaScript value: its type and what tells it from the others of the
\* type (the digits of a number, the template of a function, ...)
Value(type, v) == [type |-> type, v |-> v]

Undefined == Value("undefined", "")

\* a value JSON.stringify raises a TypeError on
BigInt == Value("bigint", "9")

\* an option that is not on the command line, a pipe that is not there
NotGiven == ""

DEFAULT_NAME == "_"

\* the names a run declares with --as, --input and --save-as
UserNames == {"a", "has"}

\* the names a run declares with --fn
FunctionNames == UserNames \cup {"resolve"}

\* the keys of the lodash module the model looks at: the module itself, a
\* helper function and a key that holds no function
LodashKeys == <<"_", "has", "VERSION">>

LodashIsFunction(k) == k \in {"_", "has"}

\* the order of the keys in the objects of the model
NameOrder == <<"console", "echo", "exit", "_", "__input__", "_ans",
               "a", "has", "resolve">>

\* Object.keys(f) of an object f, a function from names
Keys(f) == SelectSeq(NameOrder, LAMBDA n : n \in DOMAIN f)

\* what is piped: a JSON text or a text that is no JSON
StdinTexts == {"1", "oops"}

\* the JSON texts given to --input.<name>
InputTexts == {"1"}

\* the command templates given to --fn.<name> and --resolve
Templates == {"cmd"}

\* the expressions of a run: none, a script, a text acorn rejects
MainExpressions == { <<>>, <<".", "a">>, <<"\"">> }

\* the text of a name
NameText(n) ==
  IF n = "_" THEN <<"_">>
  ELSE IF n = "a" THEN <<"a">>
  ELSE <<"h", "a", "s">>

\* f with k bound to v, and f without k
Put(f, k, v) == [x \in DOMAIN f \cup {k} |-> IF x = k THEN v ELSE f[x]]

Del(f, k) == [x \in DOMAIN f \ {k} |-> f[x]]

EmptyMap == [x \in {} |-> NotGiven]

PartialMaps(K, V) == UNION {[S -> V] : S \in SUBSET K}

\* JSON.parse of the texts of the model: [ok, value]
JSONparse(text) ==
  IF text = "1" THEN [ok |-> TRUE, value |-> Value("number", "1")]
  ELSE [ok |-> FALSE, value |-> Undefined]

\* JSON.stringify(value): [ok, json]; ok = FALSE for a TypeError, json =
\* NotGiven when JSON.stringify returns undefined
JSONstringify(value) ==
  IF value.type = "bigint" THEN [ok |-> FALSE, json |-> NotGiven]
  ELSE IF value.type \in {"undefined", "function", "helper"}
    THEN [ok |-> TRUE, json |-> NotGiven]
  ELSE [ok |-> TRUE, json |-> value.v]

\* utils.js parse of a text that is not blank: [ok, value]; ok = FALSE when
\* it ends the process with status 1.  No text of the model has more than
\* one line, so the NDJSON stage fails when the first stage does.
parse(text, fallbackRaw) ==
  IF JSONparse(text).ok THEN JSONparse(text)
  ELSE IF fallbackRaw THEN [ok |-> TRUE, value |-> Value("string", text)]
  ELSE [ok |-> FALSE, value |-> Undefined]

\* main's userContext when the cache gave nothing
EmptyContext ==
  [values |-> EmptyMap, fns |-> EmptyMap, in |-> Undefined, out |-> Undefined]

\* the cache file: whether it exists, its text, and the object the text
\* holds when the text is the JSON of a user context ("json")
File(content) == [exists |-> TRUE, text |-> "json", content |-> content]

Absent == [exists |-> FALSE, text |-> "", content |-> EmptyContext]

\* a file with a text that writeCache never finished or never wrote: no
\* text at all, the beginning of a JSON object, the JSON of null
EmptyFile == [exists |-> TRUE, text |-> "", content |-> EmptyContext]

Cut == [exists |-> TRUE, text |-> "{", content |-> EmptyContext]

NullFile == [exists |-> TRUE, text |-> "null", content |-> EmptyContext]

\* JSON.parse('null')
Null == Value("null", "null")

\* utils.js readCache, then main's defaults for the keys that are missing:
\* {} when there is no file, when its text is empty and when JSON.parse
\* throws; what JSON.parse returns otherwise
readCache(file) ==
  IF ~file.exists THEN EmptyContext
  ELSE IF file.text = "" THEN EmptyContext
  ELSE IF file.text = "{" THEN EmptyContext
  ELSE IF file.text = "null" THEN Null
  ELSE file.content

\* readCache prints 'Cannot get cache' when JSON.parse throws
CannotGetCache(file) == file.exists /\ file.text = "{"

\* what JSON.stringify keeps of a value in an object
Kept(value) == JSONstringify(value).ok /\ JSONstringify(value).json # NotGiven

\* utils.js writeCache: the file it leaves.  JSON.stringify leaves out the
\* keys that hold undefined or a function.
writeCache(uc) ==
  File([values |-> [n \in {k \in DOMAIN uc.values : Kept(uc.values[k])}
                      |-> uc.values[n]],
        fns |-> uc.fns,
        in |-> IF Kept(uc.in) THEN uc.in ELSE Undefined,
        out |-> IF Kept(uc.out) THEN uc.out ELSE Undefined])

\* a delCache that leaves the file where it is
delCacheSkipped(file) == file

\* utils.js delCache: the file is gone, whether it was there or not
delCache(file) == Absent

\* ---------------------------------------------------- main: the options

MaxArgs == 2

\* how many arguments the command line has, --ls-cache and --clear-cache
\* not counted
ArgCount(o) ==
  Cardinality(DOMAIN o.input) + Cardinality(DOMAIN o.fn)
    + (IF o.as # NotGiven THEN 1 ELSE 0)
    + (IF o.saveAs # NotGiven THEN 1 ELSE 0)
    + (IF o.resolve # NotGiven THEN 1 ELSE 0)
    + (IF o.noCache THEN 1 ELSE 0)
    + (IF o.json THEN 1 ELSE 0)
    + (IF o.expression # <<>> THEN 1 ELSE 0)

\* argv and the pipe.  A run with --ls-cache or --clear-cache reads no
\* other option: they are at their defaults there, --no-cache, the
\* declarations and the pipe apart.
AllOptions ==
  {o \in [lsCache : BOOLEAN, clearCache : BOOLEAN, noCache : BOOLEAN,
          json : BOOLEAN,
          as : UserNames \cup {NotGiven},
          saveAs : {"a", NotGiven},
          input : PartialMaps(UserNames, InputTexts),
          fn : PartialMaps(FunctionNames, Templates),
          resolve : Templates \cup {NotGiven},
          expression : MainExpressions,
          stdin : StdinTexts \cup {NotGiven}] :
     /\ ArgCount(o) <= MaxArgs
     /\ (o.lsCache \/ o.clearCache) =>
          /\ ~o.json /\ o.expression = <<>>
          /\ o.saveAs = NotGiven /\ o.resolve = NotGiven
          /\ o.stdin # "oops"}

\* the same set, element by element
OptionSpace == {o : o \in AllOptions}

NoOptions ==
  [lsCache |-> FALSE, clearCache |-> FALSE, noCache |-> FALSE, json |-> FALSE,
   as |-> NotGiven, saveAs |-> NotGiven, input |-> EmptyMap, fn |-> EmptyMap,
   resolve |-> NotGiven, expression |-> <<>>, stdin |-> NotGiven]

\* utils.js hasStdin
hasStdin(o) == o.stdin # NotGiven

\* ------------------------------------------ main: validating the options

\* inputNames and fnNames of main
InputNames(o) ==
  Keys(o.input) \o (IF o.as # NotGiven THEN <<o.as>> ELSE <<>>)

FnNames(o) == Keys(o.fn)

\* varNames.length > new Set(varNames).size, --as left out of the names
HasConflictWithoutAs(o) == DOMAIN o.input \cap DOMAIN o.fn # {}

\* varNames.length > new Set(varNames).size
HasConflict(o) ==
  LET varNames == InputNames(o) \o FnNames(o)
  IN  Len(varNames) > Cardinality({varNames[k] : k \in 1..Len(varNames)})

GLOBAL_INPUT ==
  <<"g", "l", "o", "b", "a", "l", "T", "h", "i", "s", ".",
    "_", "_", "i", "n", "p", "u", "t", "_", "_">>

\* the texts main gives to expandShorthands, each with what it returns
Expansions ==
  { <<e, expandShorthands(e, GLOBAL_INPUT)>> :
      e \in (MainExpressions \ {<<>>})
               \cup {NameText(n) : n \in UserNames \cup {DEFAULT_NAME}} }

\* Support expressions "." and "", then expressions containing ".prop"
ExpressionOf(o) ==
  LET e == IF o.expression = <<".">> \/ o.expression = <<>>
             THEN NameText(IF o.as # NotGiven THEN o.as ELSE DEFAULT_NAME)
             ELSE o.expression
  IN  (CHOOSE p \in Expansions : p[1] = e)[2]

\* what the run writes on stderr when it gives up, or when it lists the
\* cache: the kind of the message and the names in it
Message(kind, inputs, fns, key) ==
  [kind |-> kind, inputs |-> inputs, fns |-> fns, key |-> key]

NoMessage == Message("none", <<>>, <<>>, "")

\* the checks of main before anything is read, in their order: the message
\* of the first that fails
Validation(o) ==
  IF o.as # NotGiven /\ ~hasStdin(o)
    THEN Message("as-without-stdin", <<>>, <<>>, "")
  ELSE IF o.saveAs # NotGiven /\ o.noCache
    THEN Message("save-as-without-cache", <<>>, <<>>, "")
  ELSE IF HasConflict(o)
    THEN Message("conflict", InputNames(o), FnNames(o), "")
  ELSE IF "resolve" \in DOMAIN o.fn /\ o.resolve # NotGiven
    THEN Message("resolve-twice", <<>>, <<>>, "")
  ELSE IF ~ExpressionOf(o).ok
    THEN Message("syntax-error", <<>>, <<>>, "")
  ELSE NoMessage

\* ------------------------------------------------ main: the user context

\* Main user input
WithStdin(uc, o) ==
  IF ~hasStdin(o) THEN uc
  ELSE LET v == parse(o.stdin, FALSE).value
       IN  IF o.as = NotGiven THEN [uc EXCEPT !.in = v]
           ELSE [uc EXCEPT !.in = v,
                           !.values = Put(uc.values, o.as, v),
                           !.fns = Del(uc.fns, o.as)]

\* Support --input.<name> options
RECURSIVE WithInputs(_, _, _)
WithInputs(uc, input, names) ==
  IF names = <<>> THEN uc
  ELSE WithInputs(
         [uc EXCEPT !.values = Put(uc.values, Head(names),
                                   parse(input[Head(names)], FALSE).value),
                    !.fns = Del(uc.fns, Head(names))],
         input, Tail(names))

\* Support --fn.<name> options
RECURSIVE WithFns(_, _, _)
WithFns(uc, fn, names) ==
  IF names = <<>> THEN uc
  ELSE WithFns(
         [uc EXCEPT !.fns = Put(uc.fns, Head(names), fn[Head(names)]),
                    !.values = Del(uc.values, Head(names))],
         fn, Tail(names))

\* Support --resolve shorthand option
WithResolve(uc, o) ==
  IF o.resolve = NotGiven THEN uc
  ELSE [uc EXCEPT !.fns = Put(uc.fns, "resolve", o.resolve),
                  !.values = Del(uc.values, "resolve")]

\* the user context of a run that reads the cache whatever --no-cache
\* says, when the cache is an object
UserContextFromCache(file, o) ==
  LET cached == IF readCache(file) = Null THEN EmptyContext
                ELSE readCache(file)
  IN  WithResolve(
        WithFns(WithInputs(WithStdin(cached, o), o.input, Keys(o.input)),
                o.fn, Keys(o.fn)),
        o)

\* the user context of the run: what the cache held, then the piped
\* input, the inputs, the functions and --resolve
UserContextOf(file, o) ==
  LET cached == IF o.noCache THEN EmptyContext ELSE readCache(file)
  IN  WithResolve(
        WithFns(WithInputs(WithStdin(cached, o), o.input, Keys(o.input)),
                o.fn, Keys(o.fn)),
        o)

\* parse ends the process on the piped text or on an input
BadInput(o) ==
  \/ hasStdin(o) /\ ~parse(o.stdin, FALSE).ok
  \/ \E n \in DOMAIN o.input : ~parse(o.input[n], FALSE).ok

\* ------------------------------------------------- main: the vm context

\* what a name is bound to in the context, and the part of main that
\* bound it: "control", "main-input", "value", "function" or "library"
Binding(origin, value) == [origin |-> origin, value |-> value]

\* addToContext(key, value, { override: true })
AddHelperOverriding(ctx, key, b) ==
  [ok |-> TRUE, context |-> Put(ctx, key, b), key |-> ""]

\* addToContext(key, value, { override: false })
AddHelper(ctx, key, b) ==
  IF key \in DOMAIN ctx THEN [ok |-> TRUE, context |-> ctx, key |-> ""]
  ELSE [ok |-> TRUE, context |-> Put(ctx, key, b), key |-> ""]

\* an addToContext(key, value) that replaces the binding of a bound key
AddNewReplacing(ctx, key, b) ==
  [ok |-> TRUE, context |-> Put(ctx, key, b), key |-> ""]

\* addToContext(key, value): it throws when the key is bound
AddNew(ctx, key, b) ==
  IF key \in DOMAIN ctx THEN [ok |-> FALSE, context |-> ctx, key |-> key]
  ELSE [ok |-> TRUE, context |-> Put(ctx, key, b), key |-> ""]

Entry(key, b, helper) == [key |-> key, binding |-> b, helper |-> helper]

\* the calls of addToContext, in the order of entries
RECURSIVE AddAll(_, _)
AddAll(ctx, entries) ==
  IF entries = <<>> THEN [ok |-> TRUE, context |-> ctx, key |-> ""]
  ELSE LET e == Head(entries)
           r == IF e.helper THEN AddHelper(ctx, e.key, e.binding)
                ELSE AddNew(ctx, e.key, e.binding)
       IN  IF ~r.ok THEN r ELSE AddAll(r.context, Tail(entries))

\* Declare all saved values
RECURSIVE ValueEntries(_, _)
ValueEntries(values, names) ==
  IF names = <<>> THEN <<>>
  ELSE <<Entry(Head(names), Binding("value", values[Head(names)]), FALSE)>>
         \o ValueEntries(values, Tail(names))

\* Declare all functions
RECURSIVE FnEntries(_, _)
FnEntries(fns, names) ==
  IF names = <<>> THEN <<>>
  ELSE <<Entry(Head(names),
               Binding("function", Value("function", fns[Head(names)])),
               FALSE)>>
         \o FnEntries(fns, Tail(names))

\* Add all lodash's helper functions without overriding previous properties
RECURSIVE HelperEntries(_)
HelperEntries(names) ==
  IF names = <<>> THEN <<>>
  ELSE (IF Head(names) # DEFAULT_NAME /\ LodashIsFunction(Head(names))
          THEN <<Entry(Head(names),
                       Binding("library", Value("helper", Head(names))),
                       TRUE)>>
          ELSE <<>>)
         \o HelperEntries(Tail(names))

Control(name) == Binding("control", Value("control", name))

\* Build script context: [ok, context, key]; ok = FALSE when addToContext
\* throws, key being the name it could not add
BuildContext(uc) ==
  AddAll(EmptyMap,
    << Entry("console", Control("console"), FALSE),
       Entry("echo", Control("echo"), FALSE),
       Entry("exit", Control("exit"), FALSE),
       Entry(DEFAULT_NAME, Binding("main-input", uc.in), FALSE),
       Entry("__input__", Binding("main-input", uc.in), FALSE),
       Entry("_ans", Binding("main-input", uc.out), FALSE) >>
    \o ValueEntries(uc.values, Keys(uc.values))
    \o FnEntries(uc.fns, Keys(uc.fns))
    \o HelperEntries(LodashKeys))

\* ------------------------------------------------------ main: the output

\* what output prints on stdout for a result: nothing, its JSON, the
\* command of a function, the raw text of a string, or util.inspect
Printed(o, value) ==
  IF o.json
    THEN IF JSONstringify(value).json = NotGiven THEN <<>>
         ELSE <<[how |-> "json", value |-> value]>>
  ELSE IF value.type = "function" THEN <<[how |-> "cmd", value |-> value]>>
  ELSE IF value.type = "string" THEN <<[how |-> "raw", value |-> value]>>
  ELSE <<[how |-> "inspect", value |-> value]>>

\* output(result): [ok, userContext, printed]; ok = FALSE when it ends
\* the process with status 1
output(uc, o, value) ==
  IF JSONstringify(value).ok
    THEN [ok |-> TRUE,
          userContext |->
            IF o.saveAs # NotGiven
              THEN [uc EXCEPT !.out = value,
                              !.values = Put(uc.values, o.saveAs, value)]
              ELSE [uc EXCEPT !.out = value],
          printed |-> Printed(o, value)]
  ELSE IF o.json \/ o.saveAs # NotGiven
    THEN [ok |-> FALSE, userContext |-> uc, printed |-> <<>>]
  ELSE [ok |-> TRUE, userContext |-> uc, printed |-> Printed(o, value)]

\* --------------------------------------------------------- main: the run

MaxEcho == 2

\* the values a script computes
ScriptValues == {Value("number", "2"), Undefined, BigInt}

\* the exit codes a script gives to exit
ExitCodes == {0, 3}

\* how a run ended and what it did: the exit status (when pc = "done"),
\* what it wrote on stderr, whether it read the cache file, wrote or
\* deleted it, and ran the script
NotRun ==
  [exit |-> 0, message |-> NoMessage,
   read |-> FALSE, written |-> FALSE, evaluated |-> FALSE]

\* result is the value output was last called with
NoScript ==
  [source |-> <<>>, explicitOutput |-> FALSE, echoes |-> 0, stdout |-> <<>>,
   result |-> Undefined]

\* no writeCache under way beside the run
SaveOff ==
  /\ saving = [pc |-> "off", record |-> EmptyContext, before |-> EmptyContext]
  /\ loading = [pc |-> "off", seen |-> EmptyContext]

\* no function binding is being called
NoCall ==
  [pc |-> "off", pattern |-> <<>>, arguments |-> <<>>, cmd |-> <<>>,
   returned |-> Undefined]

\* parse is not being called
NoParse == [pc |-> "off"]

\* readStdin is not being called
NoRead == [pc |-> "off"]

\* the parts of the program that are looked at on their own are at rest
UnitsOff ==
  /\ calling = NoCall
  /\ parsing = NoParse
  /\ reading = NoRead

\* the file at the cache path before the first run: none, or one that this
\* program did not write to its end
FirstFiles == {Absent, EmptyFile, Cut, NullFile}

RewriterOff ==
  /\ expression = <<>>
  /\ replacement = <<>>
  /\ result = [ok |-> FALSE, text |-> <<>>, tokens |-> <<>>]
  /\ again = [ok |-> FALSE, text |-> <<>>, tokens |-> <<>>]
  /\ rpc = "off"

Init ==
  /\ RewriterOff
  /\ SaveOff
  /\ UnitsOff
  /\ cacheFile \in FirstFiles
  /\ pc = "idle"
  /\ opts = NoOptions
  /\ userContext = EmptyContext
  /\ context = EmptyMap
  /\ script = NoScript
  /\ status = NotRun

\* the process ends where it is, with this status and this message
Ends(o, st, code, message) ==
  /\ pc' = "done"
  /\ opts' = o
  /\ status' = [st EXCEPT !.exit = code, !.message = message]

\* the command lines by how far main gets before it reads the cache
Listing == {o \in OptionSpace : o.lsCache}

Clearing == {o \in OptionSpace : ~o.lsCache /\ o.clearCache}

Refused ==
  {o \in OptionSpace :
     ~o.lsCache /\ ~o.clearCache /\ Validation(o) # NoMessage}

Accepted ==
  {o \in OptionSpace :
     ~o.lsCache /\ ~o.clearCache /\ Validation(o) = NoMessage}

\* main has the cache that readCache returns: null has no keys to
\* destructure, and 'values' in null throws
Loads(file, o) == o.noCache \/ readCache(file) # Null

\* main with --ls-cache
ListCache ==
  /\ pc = "idle"
  /\ readCache(cacheFile) # Null
  /\ \E o \in Listing :
     /\ Ends(o, [status EXCEPT !.read = TRUE], 0,
             Message("cache", Keys(readCache(cacheFile).values),
                     Keys(readCache(cacheFile).fns), ""))
     /\ UNCHANGED <<rvars, svars, uvars, cacheFile, userContext, context, script>>

\* main with --clear-cache
ClearCache ==
  /\ pc = "idle"
  /\ \E o \in Clearing :
     /\ cacheFile' = delCache(cacheFile)
     /\ Ends(o, [status EXCEPT !.written = TRUE], 0,
             Message("cleared", <<>>, <<>>, ""))
     /\ UNCHANGED <<rvars, svars, uvars, userContext, context, script>>

\* main gives up before it reads anything: an option check fails, or
\* acorn throws in expandShorthands
Refuse ==
  /\ pc = "idle"
  /\ \E o \in Refused :
     /\ Ends(o, status, 1, Validation(o))
     /\ UNCHANGED <<rvars, svars, uvars, cacheFile, userContext, context, script>>

\* main throws a TypeError on the cache that readCache returned
LoadFails ==
  /\ pc = "idle"
  /\ readCache(cacheFile) = Null
  /\ \E o \in Listing \cup Accepted :
     /\ o.lsCache \/ ~o.noCache
     /\ Ends(o, [status EXCEPT !.read = TRUE], 1,
             Message("type-error", <<>>, <<>>, ""))
     /\ UNCHANGED <<rvars, svars, uvars, cacheFile, userContext, context, script>>

\* main gives up on the piped text or on an input that is no JSON
RejectInput ==
  /\ pc = "idle"
  /\ \E o \in Accepted :
     /\ Loads(cacheFile, o)
     /\ BadInput(o)
     /\ Ends(o, [status EXCEPT !.read = ~o.noCache], 1,
             Message("not-json", <<>>, <<>>, ""))
     /\ UNCHANGED <<rvars, svars, uvars, cacheFile, userContext, context, script>>

\* addToContext throws while main builds the context
BuildFails ==
  /\ pc = "idle"
  /\ \E o \in Accepted :
     /\ Loads(cacheFile, o)
     /\ ~BadInput(o)
     /\ LET uc == UserContextOf(cacheFile, o)
            built == BuildContext(uc)
        IN  /\ ~built.ok
            /\ userContext' = uc
            /\ context' = built.context
            /\ Ends(o, [status EXCEPT !.read = ~o.noCache], 1,
                    Message("exists", <<>>, <<>>, built.key))
     /\ UNCHANGED <<rvars, svars, uvars, cacheFile, script>>

\* main up to the evaluation: the context is built and the script starts
Start ==
  /\ pc = "idle"
  /\ \E o \in Accepted :
     /\ Loads(cacheFile, o)
     /\ ~BadInput(o)
     /\ LET uc == UserContextOf(cacheFile, o)
            built == BuildContext(uc)
        IN  /\ built.ok
            /\ userContext' = uc
            /\ context' = built.context
     /\ pc' = "running"
     /\ opts' = o
     /\ script' = [NoScript EXCEPT !.source = ExpressionOf(o).text]
     /\ status' = [status EXCEPT !.read = ~o.noCache, !.evaluated = TRUE]
     /\ UNCHANGED <<rvars, svars, uvars, cacheFile>>

\* the script is a name: the default expression, which the model evaluates.
\* Of any other script the model knows only what it can do: call echo,
\* call exit, throw, and end with a value.
IsLookup(o) == o.expression = <<>> \/ o.expression = <<".">>

LookupName(o) == IF o.as # NotGiven THEN o.as ELSE DEFAULT_NAME

\* the values the last statement of the script can have
ResultsOf(o, ctx) ==
  IF IsLookup(o) THEN {ctx[LookupName(o)].value} ELSE ScriptValues

\* the script calls echo(value)
Echo(value) ==
  /\ pc = "running"
  /\ ~IsLookup(opts)
  /\ script.echoes < MaxEcho
  /\ LET out == output(userContext, opts, value)
     IN  /\ userContext' = out.userContext
         /\ script' = [script EXCEPT !.explicitOutput = TRUE,
                                     !.echoes = @ + 1,
                                     !.stdout = @ \o out.printed,
                                     !.result = value]
         /\ IF out.ok
              THEN UNCHANGED <<pc, status>>
              ELSE /\ pc' = "done"
                   /\ status' = [status EXCEPT
                        !.exit = 1,
                        !.message = Message("not-stringifiable", <<>>, <<>>, "")]
  /\ UNCHANGED <<rvars, svars, uvars, cacheFile, opts, context>>

\* the script ends with a value and main outputs it, whether echo was
\* called or not, then saves the user context
ReturnAlwaysOutput ==
  /\ pc = "running"
  /\ \E value \in ResultsOf(opts, context) :
     LET out == output(userContext, opts, value)
     IN  /\ userContext' = out.userContext
         /\ script' = [script EXCEPT !.stdout = @ \o out.printed,
                                     !.result = value]
         /\ pc' = "done"
         /\ IF ~out.ok
              THEN /\ status' = [status EXCEPT
                        !.exit = 1,
                        !.message = Message("not-stringifiable", <<>>, <<>>, "")]
                   /\ UNCHANGED cacheFile
            ELSE IF opts.noCache
              THEN /\ status' = [status EXCEPT !.exit = 0]
                   /\ UNCHANGED cacheFile
            ELSE /\ status' = [status EXCEPT !.exit = 0, !.written = TRUE]
                 /\ cacheFile' = writeCache(out.userContext)
  /\ UNCHANGED <<rvars, svars, uvars, opts, context>>

\* the script ends with a value: main outputs it unless echo was called,
\* then saves the user context
Return ==
  /\ pc = "running"
  /\ \E value \in ResultsOf(opts, context) :
     LET out == IF script.explicitOutput
                  THEN [ok |-> TRUE, userContext |-> userContext,
                        printed |-> <<>>]
                  ELSE output(userContext, opts, value)
     IN  /\ userContext' = out.userContext
         /\ script' = [script EXCEPT
                         !.stdout = @ \o out.printed,
                         !.result = IF script.explicitOutput THEN @ ELSE value]
         /\ pc' = "done"
         /\ IF ~out.ok
              THEN /\ status' = [status EXCEPT
                        !.exit = 1,
                        !.message = Message("not-stringifiable", <<>>, <<>>, "")]
                   /\ UNCHANGED cacheFile
            ELSE IF opts.noCache
              THEN /\ status' = [status EXCEPT !.exit = 0]
                   /\ UNCHANGED cacheFile
            ELSE /\ status' = [status EXCEPT !.exit = 0, !.written = TRUE]
                 /\ cacheFile' = writeCache(out.userContext)
  /\ UNCHANGED <<rvars, svars, uvars, opts, context>>

\* the script throws, and the user context is saved all the same before
\* node exits with 1
ThrowSaving ==
  /\ pc = "running"
  /\ ~IsLookup(opts)
  /\ pc' = "done"
  /\ status' = [status EXCEPT !.exit = 1,
                              !.message = Message("thrown", <<>>, <<>>, "")]
  /\ cacheFile' = IF opts.noCache THEN cacheFile ELSE writeCache(userContext)
  /\ UNCHANGED <<rvars, svars, uvars, opts, userContext, context, script>>

\* the script throws: main's promise is rejected and node exits with 1
Throw ==
  /\ pc = "running"
  /\ ~IsLookup(opts)
  /\ pc' = "done"
  /\ status' = [status EXCEPT !.exit = 1,
                              !.message = Message("thrown", <<>>, <<>>, "")]
  /\ UNCHANGED <<rvars, svars, uvars, cacheFile, opts, userContext, context, script>>

\* the script calls exit(exitCode)
CallExit(exitCode) ==
  /\ pc = "running"
  /\ ~IsLookup(opts)
  /\ pc' = "done"
  /\ status' = [status EXCEPT !.exit = exitCode]
  /\ UNCHANGED <<rvars, svars, uvars, cacheFile, opts, userContext, context, script>>

\* the process is gone: the cache file is what is left of it
ProcessEnds ==
  /\ pc = "done"
  /\ pc' = "idle"
  /\ opts' = NoOptions
  /\ userContext' = EmptyContext
  /\ context' = EmptyMap
  /\ script' = NoScript
  /\ status' = NotRun
  /\ UNCHANGED <<rvars, svars, uvars, cacheFile>>

\* a run of main, up to the evaluation of the script
Main ==
  \/ ListCache
  \/ ClearCache
  \/ Refuse
  \/ LoadFails
  \/ RejectInput
  \/ BuildFails
  \/ Start

Evaluate ==
  \/ \E value \in ScriptValues : Echo(value)
  \/ Return
  \/ Throw
  \/ \E exitCode \in ExitCodes : CallExit(exitCode)

Next == Main \/ Evaluate \/ ProcessEnds

Spec == Init /\ [][Next]_vars

\* ------------------------------------------------ the rewriter's inputs

MaxPieces == 3

\* the fragments the input expressions are put together from
Pieces ==
  { <<".">>, <<".", "a">>, <<".", ".", ".">>, <<"a">>,
    <<"t", "h", "i", "s">>, <<"n", "u", "l", "l">>, <<"i", "n">>,
    <<"5">>, <<" ">>, <<"\"">>, <<BackQuote>>, <<"/">>,
    <<"/", "*", "*", "/">>, <<"[">>, <<"]">>, <<"?">>,
    <<"\"", ".", "a", "\"">> }

RECURSIVE PieceTexts(_)
PieceTexts(n) ==
  IF n = 0 THEN {<<>>}
  ELSE LET S == PieceTexts(n - 1) IN S \cup {s \o p : s \in S, p \in Pieces}

Expressions == PieceTexts(MaxPieces)

\* an identifier and a dotted identifier path
Replacements == { <<"i", "n", "p", "u", "t">>, <<"g", ".", "b">> }

NotCalled == [ok |-> FALSE, text |-> <<>>, tokens |-> <<>>]

\* no run of main
MainOff ==
  /\ cacheFile = Absent
  /\ pc = "off"
  /\ opts = NoOptions
  /\ userContext = EmptyContext
  /\ context = EmptyMap
  /\ script = NoScript
  /\ status = NotRun

InitRewrite ==
  /\ expression \in Expressions
  /\ replacement \in Replacements
  /\ result = NotCalled
  /\ again = NotCalled
  /\ rpc = "input"
  /\ MainOff
  /\ SaveOff
  /\ UnitsOff

\* expandShorthands(expression, replacement)
Expand ==
  /\ rpc = "input"
  /\ result' = expandShorthands(expression, replacement)
  /\ rpc' = "expanded"
  /\ UNCHANGED <<expression, replacement, again, mvars, svars, uvars>>

\* expandShorthands applied to its own result
ExpandAgain ==
  /\ rpc = "expanded"
  /\ result.ok
  /\ again' = expandShorthands(result.text, replacement)
  /\ rpc' = "twice"
  /\ UNCHANGED <<expression, replacement, result, mvars, svars, uvars>>

NextRewrite == Expand \/ ExpandAgain

SpecRewrite == InitRewrite /\ [][NextRewrite]_vars

\* ------------------------------------- a save and a load side by side

\* the user contexts that runs give to writeCache
SessionRecords ==
  [values : PartialMaps({"a"}, {Value("number", "1")}),
   fns : PartialMaps({"resolve"}, Templates),
   in : {Undefined, Value("number", "1")},
   out : {Undefined, Value("number", "2")}]

\* the cache files that runs leave
SessionFiles == {Absent} \cup {writeCache(r) : r \in SessionRecords}

\* one process is about to call writeCache(record) at the end of its run,
\* another is about to call readCache at the beginning of its own
InitSave ==
  /\ RewriterOff
  /\ pc = "off"
  /\ opts = NoOptions
  /\ userContext = EmptyContext
  /\ context = EmptyMap
  /\ script = NoScript
  /\ status = NotRun
  /\ cacheFile \in SessionFiles
  /\ \E r \in SessionRecords :
       saving = [pc |-> "ready", record |-> r, before |-> readCache(cacheFile)]
  /\ loading = [pc |-> "ready", seen |-> EmptyContext]
  /\ UnitsOff

\* fs.writeFile opens the cache file for writing: the file is created, or
\* cut down to nothing
OpenFile ==
  /\ saving.pc = "ready"
  /\ cacheFile' = EmptyFile
  /\ saving' = [saving EXCEPT !.pc = "open"]
  /\ UNCHANGED <<rvars, uvars, pc, opts, userContext, context, script, status,
                 loading>>

\* fs.writeFile has written the beginning of the JSON
WritePart ==
  /\ saving.pc = "open"
  /\ cacheFile' = Cut
  /\ saving' = [saving EXCEPT !.pc = "part"]
  /\ UNCHANGED <<rvars, uvars, pc, opts, userContext, context, script, status,
                 loading>>

\* fs.writeFile has written all of the JSON
WriteAll ==
  /\ saving.pc \in {"open", "part"}
  /\ cacheFile' = writeCache(saving.record)
  /\ saving' = [saving EXCEPT !.pc = "written"]
  /\ UNCHANGED <<rvars, uvars, pc, opts, userContext, context, script, status,
                 loading>>

\* the other process calls readCache
Load ==
  /\ loading.pc = "ready"
  /\ loading' = [pc |-> "loaded", seen |-> readCache(cacheFile)]
  /\ UNCHANGED <<rvars, uvars, mvars, saving>>

NextSave == OpenFile \/ WritePart \/ WriteAll \/ Load

SpecSave == InitSave /\ [][NextSave]_vars

\* ------------------------------------ the build of the context, alone

\* the user contexts main builds the context from: values and functions
\* with the names of control utilities and of the main input among them
BuildRecords ==
  [values : PartialMaps({"a", "echo", "_"}, {Value("number", "1")}),
   fns : PartialMaps({"a", "exit", "_ans"}, Templates),
   in : {Undefined, Value("number", "1")},
   out : {Undefined, Value("number", "2")}]

\* main has its user context and is about to build the context
InitBuild ==
  /\ RewriterOff
  /\ SaveOff
  /\ UnitsOff
  /\ cacheFile = Absent
  /\ pc = "build"
  /\ opts = NoOptions
  /\ userContext \in BuildRecords
  /\ context = EmptyMap
  /\ script = NoScript
  /\ status = NotRun

\* Build script context: the context as it is when the build ends, and the
\* error when addToContext throws
Build ==
  /\ pc = "build"
  /\ LET built == BuildContext(userContext)
     IN  /\ context' = built.context
         /\ pc' = IF built.ok THEN "built" ELSE "done"
         /\ status' = IF built.ok THEN status
                      ELSE [status EXCEPT
                              !.exit = 1,
                              !.message = Message("exists", <<>>, <<>>,
                                                  built.key)]
  /\ UNCHANGED <<rvars, svars, uvars, cacheFile, opts, userContext, script>>

SpecBuild == InitBuild /\ [][Build]_vars

\* ------------------------------------- a call of a function binding

MaxParts == 3

MaxArguments == 2

BackSlash == "\\"

\* the digits of the placeholders
IndexDigits == {"0", "1"}

\* the fragments the command templates are put together from
TemplateParts ==
  { <<"{", "}">>, <<"{", "0", "}">>, <<"{", "1", "}">>, <<"{", "0", "1", "}">>,
    <<BackSlash>>, <<"c">>, <<"{">>, <<"}">> }

RECURSIVE PartTexts(_)
PartTexts(n) ==
  IF n = 0 THEN {<<>>}
  ELSE LET S == PartTexts(n - 1) IN S \cup {s \o p : s \in S, p \in TemplateParts}

Patterns == PartTexts(MaxParts)

\* the texts of the arguments of a call
ArgumentTexts ==
  { <<"c">>, <<BackSlash>>, <<"{", "}">>, <<BackSlash, "{", "0", "}">> }

ArgumentLists == UNION { [1..n -> ArgumentTexts] : n \in 0..MaxArguments }

\* what the command prints: a JSON text, a text that is no JSON
CommandOutputs == {"1", "oops"}

\* the end of the {digits} that begins at offset p, -1 when none does:
\* the regular expression {\d*}
PlaceholderEnd(s, p) ==
  IF CharAt(s, p) # "{" THEN -1
  ELSE LET e == RunEnd(s, p + 1, IndexDigits)
       IN  IF CharAt(s, e) = "}" THEN e + 1 ELSE -1

\* the number written by a text of digits
RECURSIVE Decimal(_)
Decimal(d) ==
  IF d = <<>> THEN 0
  ELSE 10 * Decimal(SubSeq(d, 1, Len(d) - 1)) + (IF d[Len(d)] = "1" THEN 1 ELSE 0)

\* arguments[i ?? 0] ?? '', where i is the text of the digits, or undefined
\* when there are none: a text with a leading zero is the name of no element
ArgumentAt(arguments, i) ==
  LET k == IF Len(i) > 1 /\ i[1] = "0" THEN -1 ELSE Decimal(i)
  IN  IF k >= 0 /\ k < Len(arguments) THEN arguments[k + 1] ELSE <<>>

\* s.replace(/(?<!\\){(\d+)?}/g, (_, i) => arguments[i ?? 0] ?? ''), from
\* offset p on
RECURSIVE ReplacePlaceholders(_, _, _)
ReplacePlaceholders(s, arguments, p) ==
  IF p >= Len(s) THEN <<>>
  ELSE LET e == PlaceholderEnd(s, p)
       IN  IF e # -1 /\ CharAt(s, p - 1) # BackSlash
             THEN ArgumentAt(arguments, Slice(s, p + 1, e - 1))
                    \o ReplacePlaceholders(s, arguments, e)
           ELSE <<s[p + 1]>> \o ReplacePlaceholders(s, arguments, p + 1)

\* s.replace(/\\({\d*})/g, '$1'), from offset p on
RECURSIVE Unescape(_, _)
Unescape(s, p) ==
  IF p >= Len(s) THEN <<>>
  ELSE LET e == IF s[p + 1] = BackSlash THEN PlaceholderEnd(s, p + 1) ELSE -1
       IN  IF e # -1 THEN Slice(s, p + 1, e) \o Unescape(s, e)
           ELSE <<s[p + 1]>> \o Unescape(s, p + 1)

\* the command of a call: the second replace works on what the first
\* returned
Command(pattern, arguments) ==
  Unescape(ReplacePlaceholders(pattern, arguments, 0), 0)

InitCall ==
  /\ RewriterOff
  /\ MainOff
  /\ SaveOff
  /\ \E t \in Patterns, a \in ArgumentLists :
       calling = [pc |-> "call", pattern |-> t, arguments |-> a, cmd |-> <<>>,
                  returned |-> Undefined]
  /\ parsing = NoParse
  /\ reading = NoRead

\* the expression calls the function: the command is built and run, and
\* what it printed is parsed; execSync throws when the command fails
CallFn ==
  /\ calling.pc = "call"
  /\ LET cmd == Command(calling.pattern, calling.arguments)
     IN  \/ \E out \in CommandOutputs :
              calling' = [calling EXCEPT !.pc = "returned", !.cmd = cmd,
                                         !.returned = parse(out, TRUE).value]
         \/ calling' = [calling EXCEPT !.pc = "threw", !.cmd = cmd]
  /\ UNCHANGED <<rvars, mvars, svars, parsing, reading>>

SpecCall == InitCall /\ [][CallFn]_vars

\* ----------------------------------------------------- a call of parse

MaxChars == 5

NewLine == "\n"

\* the characters of the texts given to parse: a digit, a letter that
\* begins no JSON value, a space and a line break
ParseChars == {"1", "x", " ", NewLine}

\* the white space of String.prototype.trim and of JSON
WhiteSpace == {" ", NewLine}

RECURSIVE CharTexts(_)
CharTexts(n) ==
  IF n = 0 THEN {<<>>}
  ELSE LET S == CharTexts(n - 1) IN S \cup {Append(s, c) : s \in S, c \in ParseChars}

\* what parse is called with: a string, or what readStdin and a cached
\* record can give instead of one
ParseInputs == {Value("string", s) : s \in CharTexts(MaxChars)} \cup {Undefined, Null}

\* s.trim()
RECURSIVE Trim(_)
Trim(s) ==
  IF s = <<>> THEN s
  ELSE IF s[1] \in WhiteSpace THEN Trim(Tail(s))
  ELSE IF s[Len(s)] \in WhiteSpace THEN Trim(SubSeq(s, 1, Len(s) - 1))
  ELSE s

\* s.split('\n')
RECURSIVE Split(_)
Split(s) ==
  LET e == IndexOf(s, NewLine, 0)
  IN  IF e = -1 THEN <<s>> ELSE <<Slice(s, 0, e)>> \o Split(SliceFrom(s, e + 1))

\* JSON.parse of a text of ParseChars: [ok, value]; ok = FALSE for a
\* SyntaxError.  The only JSON values of these texts are the numbers
\* written with the digit 1, with white space around them.
JSONparseText(s) ==
  LET t == Trim(s)
  IN  IF t # <<>> /\ \A k \in 1..Len(t) : t[k] = "1"
        THEN [ok |-> TRUE, value |-> Value("number", t)]
      ELSE [ok |-> FALSE, value |-> Undefined]

\* text.trim().split('\n').map(line => JSON.parse(line)): [ok, value]
JSONparseLines(s) ==
  LET lines == Split(Trim(s))
  IN  IF \A k \in 1..Len(lines) : JSONparseText(lines[k]).ok
        THEN [ok |-> TRUE,
              value |-> Value("array",
                              [k \in 1..Len(lines) |-> JSONparseText(lines[k]).value])]
      ELSE [ok |-> FALSE, value |-> Undefined]

\* how a call of parse ends: it returns a value, or it ends the process
ParseReturns(value) == [pc |-> "returned", value |-> value, exit |-> 0]

ParseExits == [pc |-> "exited", value |-> Undefined, exit |-> 1]

\* a slip: the lines are tried before the whole text
parseTextLinesFirst(text, fallbackRaw) ==
  IF text.type # "string" THEN ParseReturns(text)
  ELSE IF Trim(text.v) = <<>> THEN ParseReturns(text)
  ELSE IF JSONparseLines(text.v).ok THEN ParseReturns(JSONparseLines(text.v).value)
  ELSE IF JSONparseText(text.v).ok THEN ParseReturns(JSONparseText(text.v).value)
  ELSE IF fallbackRaw THEN ParseReturns(text)
  ELSE ParseExits

\* parse(text, { fallbackRaw }), for a text given character by character
parseText(text, fallbackRaw) ==
  IF text.type # "string" THEN ParseReturns(text)
  ELSE IF Trim(text.v) = <<>> THEN ParseReturns(text)
  ELSE IF JSONparseText(text.v).ok THEN ParseReturns(JSONparseText(text.v).value)
  ELSE IF JSONparseLines(text.v).ok THEN ParseReturns(JSONparseLines(text.v).value)
  ELSE IF fallbackRaw THEN ParseReturns(text)
  ELSE ParseExits

InitParse ==
  /\ RewriterOff
  /\ MainOff
  /\ SaveOff
  /\ calling = NoCall
  /\ \E t \in ParseInputs, f \in BOOLEAN :
       parsing = [pc |-> "call", text |-> t, fallbackRaw |-> f,
                  value |-> Undefined, exit |-> 0]
  /\ reading = NoRead

\* parse(text, { fallbackRaw }) returns, or ends the process
Parse ==
  /\ parsing.pc = "call"
  /\ LET r == parseText(parsing.text, parsing.fallbackRaw)
     IN  parsing' = [parsing EXCEPT !.pc = r.pc, !.value = r.value, !.exit = r.exit]
  /\ UNCHANGED <<rvars, mvars, svars, calling, reading>>

SpecParse == InitParse /\ [][Parse]_vars

\* ------------------------------------------------- a call of readStdin

MaxChunks == 3

MaxSignals == 2

\* the chunks the producer writes to the pipe
Chunks == { <<"1", NewLine>>, <<"1">>, <<"x">> }

Pipes == UNION { [1..n -> Chunks] : n \in 0..MaxChunks }

\* the promise readStdin returns
Pending == [state |-> "pending", value |-> Undefined]

Resolved(value) == [state |-> "resolved", value |-> value]

Rejected == [state |-> "rejected", value |-> Undefined]

\* a slip: a promise that is settled takes the value of a later resolve
resolveAgain(promise, value) == Resolved(value)

\* resolve(value): a promise is settled once
resolve(promise, value) ==
  IF promise.state = "pending" THEN Resolved(value) ELSE promise

\* reject(err)
reject(promise) == IF promise.state = "pending" THEN Rejected ELSE promise

\* main has called readStdin and waits for what it returns.  Without a
\* pipe (hasStdin is false) readStdin returns undefined and listens to nothing; with one it
\* has put its listeners on process.stdin and on SIGINT, and body is ''
InitRead ==
  /\ RewriterOff
  /\ MainOff
  /\ SaveOff
  /\ calling = NoCall
  /\ parsing = NoParse
  /\ \E piped \in BOOLEAN, p \in Pipes :
       reading = [pc |-> "reading",
                  pipe |-> IF piped THEN p ELSE <<>>,
                  open |-> piped,
                  listening |-> piped,
                  onSigint |-> piped,
                  body |-> <<>>,
                  promise |-> IF piped THEN Pending ELSE Resolved(Undefined),
                  signals |-> 0,
                  given |-> Undefined,
                  exit |-> 0]

\* the process is there and is not about to resume main: what a settled
\* promise resumes runs before the next event is looked at
Waiting ==
  /\ reading.pc \in {"reading", "continued"}
  /\ ~(reading.pc = "reading" /\ reading.promise.state # "pending")

\* process.stdin emits 'data': body += chunk
Data ==
  /\ Waiting
  /\ reading.open
  /\ reading.pipe # <<>>
  /\ reading' = [reading EXCEPT !.pipe = Tail(reading.pipe),
                                !.body = IF reading.listening
                                           THEN reading.body \o Head(reading.pipe)
                                         ELSE reading.body]
  /\ UNCHANGED <<rvars, mvars, svars, calling, parsing>>

\* the producer has closed the pipe and all of it was read: process.stdin
\* emits 'end'
End ==
  /\ Waiting
  /\ reading.open
  /\ reading.pipe = <<>>
  /\ reading' = [reading EXCEPT
                   !.open = FALSE,
                   !.promise = IF reading.listening
                                 THEN resolve(reading.promise,
                                              Value("string", reading.body))
                               ELSE reading.promise]
  /\ UNCHANGED <<rvars, mvars, svars, calling, parsing>>

\* process.stdin emits 'error'
StreamError ==
  /\ Waiting
  /\ reading.open
  /\ reading' = [reading EXCEPT
                   !.open = FALSE,
                   !.promise = IF reading.listening THEN reject(reading.promise)
                               ELSE reading.promise]
  /\ UNCHANGED <<rvars, mvars, svars, calling, parsing>>

\* the process gets SIGINT: onSigint emits 'end' on process.stdin, which
\* stays open, and takes itself off; without a listener the signal ends
\* the process
Sigint ==
  /\ Waiting
  /\ reading.signals < MaxSignals
  /\ IF reading.onSigint
       THEN reading' = [reading EXCEPT
                          !.signals = @ + 1,
                          !.onSigint = FALSE,
                          !.promise = resolve(reading.promise,
                                              Value("string", reading.body))]
     ELSE reading' = [reading EXCEPT !.signals = @ + 1, !.pc = "killed",
                                     !.exit = 130]
  /\ UNCHANGED <<rvars, mvars, svars, calling, parsing>>

\* main resumes after await readStdin() and gives what it returned to
\* parse (a call of parse is looked at on its own); the rejection of the
\* promise is handled nowhere and ends the process
Continue ==
  /\ reading.pc = "reading"
  /\ reading.promise.state # "pending"
  /\ IF reading.promise.state = "rejected"
       THEN reading' = [reading EXCEPT !.pc = "failed", !.exit = 1]
     ELSE reading' = [reading EXCEPT !.pc = "continued",
                                     !.given = reading.promise.value]
  /\ UNCHANGED <<rvars, mvars, svars, calling, parsing>>

NextRead == Data \/ End \/ StreamError \/ Sigint \/ Continue

SpecRead == InitRead /\ [][NextRead]_vars

\* the continuation of a settled promise is run
SpecReadFair == SpecRead /\ WF_vars(Continue)

\* ------------------------------------------- the rewriter's properties

\* the tokens of the input expression, as the tokenizer gave them
Toks0 == Tokenize(expression).tokens

\* expandShorthands has returned a string
Expanded == rpc = "expanded" /\ result.ok

\* dot token i of the input's tokens t0 was rewritten: the loop left it
\* labelled as a name
Rewritten(t0, i) == t0[i].label = "." /\ result.tokens[i].label = "name"

DotTokens(t0) == {i \in 1..Len(t0) : t0[i].label = "."}

\* the text between token i and the token after it
GapAfter(t0, i) == Slice(expression, t0[i].end, t0[i + 1].start)

\* by how much the rewrites of the dots among tokens 1..k that start
\* before offset p move the text at p
RECURSIVE ShiftBefore(_, _, _)
ShiftBefore(t0, k, p) ==
  IF k = 0 THEN 0
  ELSE ShiftBefore(t0, k - 1, p) +
       (IF Rewritten(t0, k) /\ t0[k].start < p
          THEN Len(replacement) - (IF LabelAt(t0, k + 1) = "name" THEN 0 ELSE 1)
          ELSE 0)

Shift(t0, p) == ShiftBefore(t0, Len(t0), p)

\* the input from offset p on, character by character, with the
\* replacement put at every rewritten dot, and the dot kept only before a
\* name
RECURSIVE SpliceFrom(_, _)
SpliceFrom(t0, p) ==
  IF p >= Len(expression) THEN <<>>
  ELSE IF \E i \in DotTokens(t0) : Rewritten(t0, i) /\ t0[i].start = p
    THEN LET i == CHOOSE j \in DotTokens(t0) : Rewritten(t0, j) /\ t0[j].start = p
         IN  replacement
               \o (IF LabelAt(t0, i + 1) = "name" THEN <<".">> ELSE <<>>)
               \o SpliceFrom(t0, p + 1)
  ELSE <<expression[p + 1]>> \o SpliceFrom(t0, p + 1)

\* the token types that stand for a receiver expression left of a dot
ReceiverLabels ==
  {"name", "]", ")", "}", "this", "null", "true", "false",
   "string", BackQuote, "regexp", "num"}

\* no dot of e is a leading dot
NoLeadingDot(e) ==
  LET t == Tokenize(e)
  IN  /\ t.ok
      /\ \A i \in 1..Len(t.tokens) :
           t.tokens[i].label = "." =>
             \/ LabelAt(t.tokens, i - 1) \in ReceiverLabels
             \/ LabelAt(t.tokens, i + 1) \in KeywordLabels

\* C1: an expression with no leading dot (every dot token has a receiver
\* immediately to its left, or is followed by a reserved word as property
\* name; dots of decimal literals, strings, templates, regexes and comments
\* are no dot tokens) is returned unchanged.
C1_NoLeadingDotUnchanged ==
  (rpc = "expanded" /\ NoLeadingDot(expression))
    => (result.ok /\ result.text = expression)

\* C2: expandShorthands is idempotent: applied to its own result it
\* returns that result.
C2_Idempotent ==
  rpc = "twice" => (again.ok /\ again.text = result.text)

\* C3: the replacement is inserted exactly once at the place of every
\* rewritten dot; the dot is kept when the next token is a name and removed
\* otherwise; every other character is copied.
C3_ReplacementOncePerDot ==
  Expanded => LET t0 == Toks0 IN result.text = SpliceFrom(t0, 0)

C3_Witness ==
  /\ Expanded
  /\ LET t0 == Toks0
     IN  \E i, j \in DotTokens(t0) :
           /\ Rewritten(t0, i) /\ LabelAt(t0, i + 1) = "name"
           /\ Rewritten(t0, j) /\ LabelAt(t0, j + 1) # "name"

\* C4: a dot token immediately preceded by a name, a closing bracket or a
\* literal keyword is never rewritten, whatever follows it.
C4_ReceiverDotNeverRewritten ==
  Expanded =>
    LET t0 == Toks0
    IN  \A i \in DotTokens(t0) :
          LabelAt(t0, i - 1) \in {"name", "]", ")", "}", "null", "true", "false"}
            => ~Rewritten(t0, i)

\* C5 as stated: a dot followed by a number token is left alone only when
\* the number touches it; with white space in between (and no name, closing
\* bracket or literal keyword before the dot) it is rewritten.
C5_DecimalOnlyWhenAdjacent ==
  Expanded =>
    LET t0 == Toks0
    IN  \A i \in DotTokens(t0) :
          ( /\ LabelAt(t0, i + 1) = "num"
            /\ GapAfter(t0, i) # <<>>
            /\ LabelAt(t0, i - 1) \notin
                 {"name", "]", ")", "}", "null", "true", "false"} )
            => Rewritten(t0, i)

\* C5 as amended: a dot followed by a number token is left alone exactly
\* when nothing but white space (possibly none) lies between the two; with
\* a comment in between it is rewritten.
C5_DecimalWhenOnlyBlankBetween ==
  Expanded =>
    LET t0 == Toks0
    IN  \A i \in DotTokens(t0) :
          LabelAt(t0, i + 1) = "num"
            => (Rewritten(t0, i) <=> ~IsBlank(GapAfter(t0, i)))

C5_Witness ==
  /\ Expanded
  /\ LET t0 == Toks0
     IN  \E i \in DotTokens(t0) :
           /\ LabelAt(t0, i + 1) = "num"
           /\ ~IsBlank(GapAfter(t0, i))
           /\ Rewritten(t0, i)

\* the ranges of the string, template and regex tokens and of the comments
OpaqueRanges(t) ==
  {[start |-> t.tokens[i].start, end |-> t.tokens[i].end] :
     i \in {j \in 1..Len(t.tokens) :
              t.tokens[j].label \in {"string", "template", "regexp"}}}
  \cup {t.comments[k] : k \in 1..Len(t.comments)}

\* e is one literal delimited by q
IsQuoted(e, q) ==
  /\ Len(e) >= 2
  /\ e[1] = q /\ e[Len(e)] = q
  /\ \A k \in 2..(Len(e) - 1) : e[k] # q

IsLineComment(e) == Len(e) >= 2 /\ e[1] = "/" /\ e[2] = "/"

C7_Total == rpc = "expanded" => result.ok

\* C8: a rewritten dot counts as a name for the token after it.  Of two
\* dot tokens in a row before a name the first is rewritten and removed and
\* the second is left; a dot between two names is left; the test cases.
C8_RewrittenDotIsName ==
  Expanded =>
    LET t0 == Toks0
    IN  /\ \A i \in DotTokens(t0) :
             (LabelAt(t0, i + 1) = "." /\ LabelAt(t0, i + 2) = "name")
               => /\ Rewritten(t0, i)
                  /\ ~Rewritten(t0, i + 1)
                  /\ Slice(result.text,
                           t0[i].start + Shift(t0, t0[i].start),
                           t0[i + 1].end + Shift(t0, t0[i + 1].end))
                       = replacement \o GapAfter(t0, i) \o <<".">>
        /\ \A i \in DotTokens(t0) :
             (LabelAt(t0, i - 1) = "name" /\ LabelAt(t0, i + 1) = "name")
               => ~Rewritten(t0, i)
        /\ expression = <<".", "a", ".", "a">>
             => result.text = replacement \o <<".", "a", ".", "a">>
        /\ expression = <<".", "a", "?", ".", "a">>
             => result.text = replacement \o <<".", "a", "?", ".", "a">>
        /\ expression = <<"[", ".", ".", "a">>
             => result.text = <<"[">> \o replacement \o <<".", "a">>
        /\ expression = <<".", ".", ".", ".", "a">>
             => result.text = <<".", ".", ".">> \o replacement \o <<".", "a">>
        /\ expression = <<".", ".", ".", ".", "]">>
             => result.text = <<".", ".", ".">> \o replacement \o <<"]">>

C8_Witness ==
  /\ Expanded
  /\ LET t0 == Toks0
     IN  \E i \in DotTokens(t0) :
           /\ LabelAt(t0, i + 1) = "." /\ LabelAt(t0, i + 2) = "name"
           /\ Rewritten(t0, i)

\* ------------------------------------------------ the properties of a run

\* the run is over
Done == pc = "done"

\* the names the command line declares with --input, --as and --fn are
\* not pairwise distinct
Clash(o) ==
  \/ DOMAIN o.input \cap DOMAIN o.fn # {}
  \/ o.as # NotGiven /\ o.as \in DOMAIN o.input \cup DOMAIN o.fn

\* the names that are declared twice
Clashing(o) ==
  (DOMAIN o.input \cap DOMAIN o.fn)
    \cup (IF o.as # NotGiven THEN {o.as} \cap (DOMAIN o.input \cup DOMAIN o.fn)
          ELSE {})

Listed(names) == {names[k] : k \in 1..Len(names)}

\* the run failed on the conflict: status 1, nothing read, written or
\* evaluated, and the error output has every name that is declared twice
FailedOnConflict ==
  /\ status.exit = 1
  /\ ~status.read /\ ~status.written /\ ~status.evaluated
  /\ status.message.kind = "conflict"
  /\ Clashing(opts) \subseteq
       Listed(status.message.inputs) \cup Listed(status.message.fns)
  /\ Listed(status.message.inputs) =
       DOMAIN opts.input \cup (IF opts.as # NotGiven THEN {opts.as} ELSE {})
  /\ Listed(status.message.fns) = DOMAIN opts.fn

\* the run is neither a listing nor a clearing of the cache, and it passes
\* the two checks main makes before it compares the names
ReachesNameCheck(o) ==
  /\ ~o.lsCache /\ ~o.clearCache
  /\ ~(o.as # NotGiven /\ o.stdin = NotGiven)
  /\ ~(o.saveAs # NotGiven /\ o.noCache)

\* C9, as stated: every run whose declared names (--input, --as, --fn) are
\* not pairwise distinct ends with status 1 before the cache is read or
\* written and before anything is evaluated, and its error output lists
\* the conflicting names.
C9_ConflictAlwaysFails == (Done /\ Clash(opts)) => FailedOnConflict

\* C9, amended: a run without --ls-cache and --clear-cache that passes the
\* checks of --as and of --save-as, and whose declared names are not
\* pairwise distinct, ends with status 1 before the cache is read or
\* written and before anything is evaluated, and its error output lists
\* all the input names and all the function names.
C9_ConflictFailsAfterEarlierChecks ==
  (Done /\ Clash(opts) /\ ReachesNameCheck(opts)) => FailedOnConflict

\* a run over an existing cache file was refused for its conflicting names
C9_Witness ==
  /\ Done /\ Clash(opts) /\ ReachesNameCheck(opts)
  /\ cacheFile.exists
  /\ status.message.kind = "conflict"
  /\ status.message.inputs = <<"a">>
  /\ status.message.fns = <<"a">>

\* the names of lodash's helper functions
HelperNames ==
  {LodashKeys[k] : k \in {j \in 1..Len(LodashKeys) : LodashIsFunction(LodashKeys[j])}}

ControlNames == {"console", "echo", "exit"}

MainInputNames == {"_", "__input__", "_ans"}

\* main has built the context and the script has done nothing yet
Built == pc = "running" /\ script.echoes = 0

\* C10: in the context main has built, a name of a lodash helper that a
\* value (declared or cached), a user function, a control utility or the
\* main input has is bound to that one, and to the helper only when none of
\* them has it; and when the build fails, it fails on a name that two of
\* those sources have, never on a helper.
C10_HelperOnlyWhenUnbound ==
  /\ Built =>
       \A h \in HelperNames :
         /\ h \in DOMAIN context
         /\ h \in ControlNames => context[h].origin = "control"
         /\ h \in MainInputNames => context[h].origin = "main-input"
         /\ h \in DOMAIN userContext.values =>
              context[h] = Binding("value", userContext.values[h])
         /\ h \in DOMAIN userContext.fns =>
              context[h] = Binding("function",
                                   Value("function", userContext.fns[h]))
         /\ h \notin ControlNames \cup MainInputNames
                       \cup DOMAIN userContext.values
                       \cup DOMAIN userContext.fns =>
              context[h] = Binding("library", Value("helper", h))
  /\ (Done /\ status.message.kind = "exists") =>
       /\ \A n \in DOMAIN context : context[n].origin # "library"
       /\ \/ status.message.key \in
               DOMAIN userContext.values \cap DOMAIN userContext.fns
          \/ status.message.key \in
               (ControlNames \cup MainInputNames)
                 \cap (DOMAIN userContext.values \cup DOMAIN userContext.fns)

\* the context holds the cached value named like a helper, and the helper
\* of the other name that is bound to nothing else
C10_Witness ==
  /\ Built
  /\ opts.input = EmptyMap /\ opts.as = NotGiven
  /\ "has" \in DOMAIN userContext.values
  /\ context["has"].origin = "value"
  /\ context["_"].origin = "main-input"

\* a run that is neither a listing nor a clearing of the cache
IsRun(o) == ~o.lsCache /\ ~o.clearCache

\* the run went to its end and saved the user context
Saved == Done /\ IsRun(opts) /\ status.exit = 0 /\ status.written

\* the names the command line declares as values, and as functions
DeclaredValues(o) ==
  DOMAIN o.input \cup (IF o.as # NotGiven THEN {o.as} ELSE {})

DeclaredFns(o) ==
  DOMAIN o.fn \cup (IF o.resolve # NotGiven THEN {"resolve"} ELSE {})

\* in the record, no name the run declares as a value is a function and
\* no name it declares as a function is a value
Exclusive(record, o) ==
  /\ DeclaredValues(o) \cap DOMAIN record.fns = {}
  /\ DeclaredFns(o) \cap DOMAIN record.values = {}

\* C11: once a run has merged its declarations, and when it has saved the
\* session record, the record holds no function named like a value the run
\* declares (--as, --input) and no value named like a function it declares
\* (--fn, --resolve), whatever the cache held before.
C11_DeclaredKindIsExclusive ==
  /\ Built => Exclusive(userContext, opts)
  /\ Saved => Exclusive(readCache(cacheFile), opts)

\* the names a command line binds: the declared ones and that of --save-as
Bound(o) ==
  DeclaredValues(o) \cup DeclaredFns(o)
    \cup (IF o.saveAs # NotGiven THEN {o.saveAs} ELSE {})

\* the value the command line declares for a name
DeclaredValue(o, n) ==
  IF n \in DOMAIN o.input THEN parse(o.input[n], FALSE).value
  ELSE parse(o.stdin, FALSE).value

DeclaredFn(o, n) == IF n \in DOMAIN o.fn THEN o.fn[n] ELSE o.resolve

\* record c holds what command line o pipes and declares
Holds(c, o) ==
  /\ hasStdin(o) => c.in = parse(o.stdin, FALSE).value
  /\ \A n \in DeclaredValues(o) \ {o.saveAs} :
       n \in DOMAIN c.values /\ c.values[n] = DeclaredValue(o, n)
  /\ \A n \in DeclaredFns(o) :
       n \in DOMAIN c.fns /\ c.fns[n] = DeclaredFn(o, n)

\* in context ctx, a run with command line o sees what record c holds and
\* o does not bind
Sees(c, o, ctx) ==
  /\ ~hasStdin(o) => ctx[DEFAULT_NAME].value = c.in
  /\ \A n \in DOMAIN c.values \ Bound(o) :
       n \in DOMAIN ctx /\ ctx[n].value = c.values[n]
  /\ \A n \in DOMAIN c.fns \ Bound(o) :
       n \in DOMAIN ctx /\ ctx[n].value = Value("function", c.fns[n])

\* record d holds what record c holds and command line o does not bind
Keeps(c, o, d) ==
  /\ ~hasStdin(o) => d.in = c.in
  /\ \A n \in DOMAIN c.values \ Bound(o) :
       n \in DOMAIN d.values /\ d.values[n] = c.values[n]
  /\ \A n \in DOMAIN c.fns \ Bound(o) :
       n \in DOMAIN d.fns /\ d.fns[n] = c.fns[n]

\* a run with the cache gets past the checks of its own command line
RunBegins ==
  /\ pc = "idle" /\ pc' # "idle"
  /\ opts' \in Accepted /\ ~opts'.noCache /\ ~BadInput(opts')
  /\ readCache(cacheFile) # Null

\* a run saves the user context
RunSaves == pc = "running" /\ Saved'

\* C12: a run that ends well with the cache leaves in it the input it was
\* piped, the values and the functions it declared; every later run with
\* the cache sees in its context what the cache holds and it does not bind
\* itself (the piped input as _ when nothing is piped), and leaves that in
\* the cache when it saves it: until the cache is cleared.
C12_CachedBindingsPersist ==
  /\ [](Saved => Holds(readCache(cacheFile), opts))
  /\ [][/\ RunBegins =>
             pc' = "running" /\ Sees(readCache(cacheFile), opts', context')
        /\ RunSaves =>
             Keeps(readCache(cacheFile), opts, readCache(cacheFile'))]_vars

\* record c holds the result of the run with command line o as its out
\* and, with --save-as, under that name
HoldsResult(c, o, value) ==
  /\ c.out = value
  /\ o.saveAs # NotGiven =>
       o.saveAs \in DOMAIN c.values /\ c.values[o.saveAs] = value

\* in context ctx, _ans is the out of record c, and the values of c that
\* command line o does not bind are bound
SeesResult(c, o, ctx) ==
  /\ ctx["_ans"].value = c.out
  /\ \A n \in DOMAIN c.values \ Bound(o) :
       n \in DOMAIN ctx /\ ctx[n].value = c.values[n]

\* C13: a run that ends well with the cache leaves its result in the cache
\* as out and, with --save-as N, as the value N; the next run with the
\* cache has that out as _ans and that value as N in its context.
C13_ResultIsNextAns ==
  /\ [](Saved => HoldsResult(readCache(cacheFile), opts, script.result))
  /\ [][RunBegins =>
          pc' = "running"
            /\ SeesResult(readCache(cacheFile), opts', context')]_vars

\* main is past the option checks of a command line with --no-cache
WithoutCache == pc \in {"running", "done"} /\ opts.noCache

\* the run has neither read nor written the cache file, and its context is
\* the one it builds when there is no cache file
NothingCached ==
  /\ ~status.read /\ ~status.written
  /\ status.evaluated =>
       context = BuildContext(UserContextOf(Absent, opts)).context

FreshNames(o) == ControlNames \cup MainInputNames \cup HelperNames \cup Bound(o)

\* context ctx of command line o has nothing of an earlier run
SeesNothingCached(o, ctx) ==
  /\ ctx["_ans"].value = Undefined
  /\ ~hasStdin(o) => ctx[DEFAULT_NAME].value = Undefined
  /\ DOMAIN ctx \subseteq FreshNames(o)

\* main ends as --clear-cache does: the file is gone, nothing was
\* evaluated, the status is 0
Cleared ==
  /\ pc' = "done" /\ status'.exit = 0 /\ ~status'.evaluated
  /\ ~cacheFile'.exists

\* a run of main evaluates its script over no cache file
BeginsOnNoFile == pc = "idle" /\ ~cacheFile.exists /\ pc' = "running"

RunLoads == pc = "idle" /\ pc' # "idle" /\ status'.read

\* the cache file is not there, is empty, or its text is no user context
NoRecord(file) == ~file.exists \/ file.text # "json"

\* C16: loading the cache never makes the run fail, and over a cache file
\* that is absent, empty or not the JSON of a user context, the run goes on
\* with the empty record: its user context is the one of a run without
\* cache file.
C16_LoadNeverFails ==
  [][RunLoads =>
       /\ status'.message.kind # "type-error"
       /\ (IsRun(opts') /\ NoRecord(cacheFile) /\ ~BadInput(opts')) =>
            userContext' = UserContextOf(Absent, opts')]_vars

\* C17: a readCache beside a writeCache returns the record the file held
\* before the save began or the record that is saved, never that of an
\* empty or half-written file.
C17_LoadSeesOldOrNew ==
  loading.pc = "loaded" =>
    loading.seen \in {saving.before, readCache(writeCache(saving.record))}

\* C18: the cache file that a run has saved loads as the user context that
\* was saved: the same piped input, the same previous result, the same
\* value names with the same values, the same function names with the
\* same templates.
C18_SaveThenLoadIsEqual == Saved => readCache(cacheFile) = userContext

\* the cache file holds the user context of the run as it is now
Persisted == cacheFile' = writeCache(userContext)

\* C19: when the script throws in a run with the cache, the user context
\* accumulated so far (the piped input, the declared values and functions)
\* is written to the cache file, and the run ends with a status other
\* than 0.
C19_ThrowStillPersists ==
  [][Throw =>
       /\ status'.exit # 0
       /\ ~opts.noCache => Persisted]_vars

\* C20: when the script calls exit(code), the process ends with that code,
\* and in a run with the cache the user context accumulated so far (the
\* piped input, the declarations, what echo has output) is written to the
\* cache file.
C20_ExitFlushesCache ==
  [][\A exitCode \in ExitCodes :
       CallExit(exitCode) =>
         /\ status'.exit = exitCode
         /\ ~opts.noCache => Persisted]_vars

\* output was called with the value that script.result now holds: what
\* it prints is appended to stdout, or it ends the process with status 1
\* and prints nothing
Outputs ==
  \/ script'.stdout = script.stdout \o Printed(opts, script'.result)
  \/ /\ pc' = "done" /\ status'.exit = 1
     /\ script'.stdout = script.stdout

\* C23: every call of echo gives its argument to output, which prints it
\* after what was printed before; when the script ends after a call of
\* echo, nothing more is printed; when it ends with a value and echo was
\* never called, that value is given to output, and nothing else is
\* printed.
C23_EchoReplacesLastStatement ==
  /\ [](script.explicitOutput <=> script.echoes > 0)
  /\ [](script.explicitOutput => Len(script.stdout) <= script.echoes)
  /\ [](~script.explicitOutput /\ pc = "running" => script.stdout = <<>>)
  /\ [][/\ (\E value \in ScriptValues : Echo(value)) =>
             script'.result \in ScriptValues /\ Outputs
        /\ (pc = "running" /\ pc' = "done" /\ script'.echoes = script.echoes
              /\ script.explicitOutput) =>
             script'.stdout = script.stdout
        /\ (Return /\ ~script.explicitOutput) => Outputs]_vars

\* a run has ended well after two calls of echo that printed two
\* different values
C23_Witness ==
  /\ Done /\ status.exit = 0 /\ status.written
  /\ script.echoes = 2 /\ Len(script.stdout) = 2
  /\ script.stdout[1].value # script.stdout[2].value

\* command lines with --resolve, an input named resolve among the inputs
ResolveForms ==
  [lsCache : {FALSE}, clearCache : {FALSE}, noCache : BOOLEAN,
   json : BOOLEAN,
   as : {"a", NotGiven},
   saveAs : {"a", NotGiven},
   input : PartialMaps({"a", "resolve"}, InputTexts),
   fn : PartialMaps({"a"}, Templates),
   resolve : Templates,
   expression : {<<>>},
   stdin : {"1", NotGiven}]

\* the same command line with --fn.resolve in the place of --resolve
AsFn(o) ==
  [o EXCEPT !.resolve = NotGiven, !.fn = Put(o.fn, "resolve", o.resolve)]

\* main up to the evaluation, as a function of the cache file and of the
\* command line: the message of the check that fails, the user context and
\* the context that is built
Beginning(file, o) ==
  LET goes == Validation(o) = NoMessage /\ Loads(file, o) /\ ~BadInput(o)
      uc == IF goes THEN UserContextOf(file, o) ELSE EmptyContext
  IN  [message |-> Validation(o),
       loads |-> Loads(file, o),
       userContext |-> uc,
       built |-> BuildContext(uc)]

\* C24: over every cache file, a command line with --resolve <cmd> and the
\* same command line with --fn.resolve <cmd> get the same error from the
\* option checks, or the same user context and the same context: the runs
\* differ in nothing, and so save the same record.
C24_ResolveIsFnResolve ==
  pc = "idle" =>
    \A o \in ResolveForms :
       Beginning(cacheFile, o) = Beginning(cacheFile, AsFn(o))

\* the names that more than one of the control utilities, the main input,
\* the values and the functions of user context uc have
BoundTwice(uc) ==
  ((DOMAIN uc.values \cup DOMAIN uc.fns)
      \cap (ControlNames \cup MainInputNames))
    \cup (DOMAIN uc.values \cap DOMAIN uc.fns)

\* the origin of the first source that has name n
FirstOrigin(uc, n) ==
  IF n \in ControlNames THEN "control"
  ELSE IF n \in MainInputNames THEN "main-input"
  ELSE IF n \in DOMAIN uc.values THEN "value"
  ELSE IF n \in DOMAIN uc.fns THEN "function"
  ELSE "library"

\* C26: when the build of the context ends, every name in it is bound to
\* what the first of the control utilities, the main input, the values and
\* the functions gave it; when one of these names comes twice, the build
\* has failed with an error on such a name, and otherwise it has succeeded
\* with every value and function bound.
C26_BoundAtMostOnce ==
  pc \in {"built", "done"} =>
    /\ \A n \in DOMAIN context :
         context[n].origin = FirstOrigin(userContext, n)
    /\ BoundTwice(userContext) # {} =>
         /\ pc = "done" /\ status.exit = 1
         /\ status.message.kind = "exists"
         /\ status.message.key \in BoundTwice(userContext)
    /\ BoundTwice(userContext) = {} =>
         /\ pc = "built"
         /\ DOMAIN userContext.values \cup DOMAIN userContext.fns
              \subseteq DOMAIN context

\* the build has failed on a value that has the name of a control utility
C26_Witness ==
  /\ pc = "done"
  /\ "echo" \in DOMAIN userContext.values
  /\ status.message.key = "echo"
  /\ context["echo"].origin = "control"

\* the kinds of message of the runs that give up
FailureKinds ==
  {"as-without-stdin", "save-as-without-cache", "conflict", "resolve-twice",
   "syntax-error", "not-json", "exists", "thrown", "not-stringifiable"}

\* C27: the cache file changes only in the last step of a run that ends
\* with status 0; a run that ends on a failed option check, a name
\* conflict, an input that is no JSON, a collision in the context, a
\* script that throws or a result that cannot be stringified leaves the
\* file as it was when the run began.
C27_OnlySuccessWrites ==
  /\ [][cacheFile' # cacheFile =>
          pc' = "done" /\ status'.exit = 0 /\ status'.written]_vars
  /\ [](Done /\ status.message.kind \in FailureKinds =>
          status.exit = 1 /\ ~status.written)

\* a script has thrown in a run whose user context is not what the cache
\* file holds
C27_Witness ==
  /\ Done /\ status.message.kind = "thrown" /\ ~opts.noCache
  /\ cacheFile.exists /\ cacheFile.text = "json"
  /\ writeCache(userContext) # cacheFile

\* C28: the record in the cache file never has a name that is both a
\* value and a function, nor a value or a function with the name of a
\* control utility or of the main input, and a run with no options builds
\* its context from it.
C28_SavedNamesAreDisjoint ==
  readCache(cacheFile) # Null =>
    /\ BoundTwice(readCache(cacheFile)) = {}
    /\ BuildContext(UserContextOf(cacheFile, NoOptions)).ok

\* record d has every value name and function name of record c, but those
\* that command line o declares as the other kind, and with what c holds
\* for the names that o does not bind
NothingRemoved(c, o, d) ==
  /\ DOMAIN c.values \ DeclaredFns(o) \subseteq DOMAIN d.values
  /\ DOMAIN c.fns \ DeclaredValues(o) \subseteq DOMAIN d.fns
  /\ \A n \in DOMAIN c.values \ Bound(o) : d.values[n] = c.values[n]
  /\ \A n \in DOMAIN c.fns \ Bound(o) : d.fns[n] = c.fns[n]

\* C29: when a run saves the user context, the cache file has afterwards
\* every value name and every function name it had before, but the names
\* that the run declares as the other kind, and with the same value or
\* template for the names that the run does not bind.
C29_SaveRemovesNoName ==
  [][RunSaves =>
       NothingRemoved(readCache(cacheFile), opts, readCache(cacheFile'))]_vars

\* the offsets of the output that hold an inserted replacement: the one of
\* rewritten dot i begins where the dot was, moved by the rewrites left of it
InsertedOffsets(t0) ==
  { q \in 0..(Len(result.text) - 1) :
      \E i \in DotTokens(t0) :
        /\ Rewritten(t0, i)
        /\ q - (t0[i].start + Shift(t0, t0[i].start)) \in 0..(Len(replacement) - 1) }

\* the offsets of the input that hold a rewritten dot with no name after it
RemovedOffsets(t0) ==
  { t0[i].start : i \in {j \in DotTokens(t0) :
                           Rewritten(t0, j) /\ LabelAt(t0, j + 1) # "name"} }

\* s from offset k on, without the characters at the offsets of P
RECURSIVE Without(_, _, _)
Without(s, P, k) ==
  IF k >= Len(s) THEN <<>>
  ELSE (IF k \in P THEN <<>> ELSE <<s[k + 1]>>) \o Without(s, P, k + 1)

\* C30: the output of expandShorthands without the inserted replacements is
\* the input without the rewritten dots that no name follows: apart from
\* these dots every character of the input is in the output once, in the
\* original order, and nothing but the replacements is added.
C30_OnlyInsertsAndDropsDots ==
  Expanded =>
    LET t0 == Toks0
    IN  /\ Without(result.text, InsertedOffsets(t0), 0)
             = Without(expression, RemovedOffsets(t0), 0)
        /\ Len(result.text) = Len(expression)
             + Cardinality({i \in DotTokens(t0) : Rewritten(t0, i)}) * Len(replacement)
             - Cardinality(RemovedOffsets(t0))

\* a call that rewrote a dot it removed, a dot it kept, and copied other text
C30_Witness ==
  /\ Expanded
  /\ LET t0 == Toks0
     IN  /\ RemovedOffsets(t0) # {}
         /\ \E i \in DotTokens(t0) : Rewritten(t0, i) /\ LabelAt(t0, i + 1) = "name"
         /\ \E i \in 1..Len(t0) : t0[i].label \notin {".", "name"}

\* the function binding has built its command
Called == calling.pc \in {"returned", "threw"}

\* the template from offset p on, read once: an escaped placeholder gives
\* the placeholder, any other placeholder the text of its argument, any
\* other character itself
RECURSIVE Filled(_, _, _)
Filled(s, arguments, p) ==
  IF p >= Len(s) THEN <<>>
  ELSE IF s[p + 1] = BackSlash /\ PlaceholderEnd(s, p + 1) # -1
    THEN Slice(s, p + 1, PlaceholderEnd(s, p + 1))
           \o Filled(s, arguments, PlaceholderEnd(s, p + 1))
  ELSE IF PlaceholderEnd(s, p) # -1
    THEN ArgumentAt(arguments, Slice(s, p + 1, PlaceholderEnd(s, p) - 1))
           \o Filled(s, arguments, PlaceholderEnd(s, p))
  ELSE <<s[p + 1]>> \o Filled(s, arguments, p + 1)

\* C21: the command of a call is its template with every unescaped {} and
\* {i} replaced by the text of the argument, unchanged (nothing for a
\* missing argument), every escaped placeholder turned into the
\* placeholder, and every other character of the template kept.
C21_CommandIsFilledTemplate ==
  Called => calling.cmd = Filled(calling.pattern, calling.arguments, 0)

\* text is a JSON document: a number, with white space around it or not
IsDocument(s) ==
  \E a, b \in 0..Len(s) :
    /\ a < b
    /\ \A k \in 1..Len(s) :
         IF k > a /\ k <= b THEN s[k] = "1" ELSE s[k] \in WhiteSpace

\* the lines of s: the texts between its line breaks
LinesOf(s) ==
  LET breaks == {k \in 1..Len(s) : s[k] = NewLine}
      starts == {1} \cup {k + 1 : k \in breaks}
      EndOf(a) == IF \E k \in breaks : k >= a
                    THEN (CHOOSE k \in breaks : k >= a /\ \A j \in breaks : j >= a => k <= j) - 1
                  ELSE Len(s)
      Nth(n) == CHOOSE a \in starts : Cardinality({b \in starts : b < a}) = n - 1
  IN  [n \in 1..Cardinality(starts) |-> SubSeq(s, Nth(n), EndOf(Nth(n)))]

\* every line of the trimmed text is a JSON document
IsLines(s) == \A n \in 1..Len(LinesOf(Trim(s))) : IsDocument(LinesOf(Trim(s))[n])

\* the number a document holds
NumberOf(s) == Value("number", SelectSeq(s, LAMBDA c : c = "1"))

ParseDone == parsing.pc \in {"returned", "exited"}

IsText(input) == input.type = "string" /\ \E k \in 1..Len(input.v) : input.v[k] \notin WhiteSpace

\* C22: parse returns blank and non-string input as it is; of any other
\* text it returns the JSON document when the text is one; only when it is
\* none, the sequence of the values of the lines of the trimmed text when
\* every line is a JSON document; only when that fails too, the text
\* unchanged when fallbackRaw is set, and otherwise it ends the process
\* with status 1.
C22_ParseStagesInOrder ==
  ParseDone =>
    LET input == parsing.text
        lines == LinesOf(Trim(input.v))
    IN  IF ~IsText(input)
          THEN parsing.pc = "returned" /\ parsing.value = input
        ELSE IF IsDocument(input.v)
          THEN parsing.pc = "returned" /\ parsing.value = NumberOf(input.v)
        ELSE IF IsLines(input.v)
          THEN /\ parsing.pc = "returned"
               /\ parsing.value.type = "array"
               /\ parsing.value.v = [n \in 1..Len(lines) |-> NumberOf(lines[n])]
        ELSE IF parsing.fallbackRaw
          THEN parsing.pc = "returned" /\ parsing.value = input
        ELSE parsing.pc = "exited" /\ parsing.exit = 1

\* parse has returned the values of more than one line, of a text that ends
\* with a line break
C22_Witness ==
  /\ parsing.pc = "returned"
  /\ parsing.text.type = "string"
  /\ parsing.value.type = "array"
  /\ Len(parsing.value.v) >= 2
  /\ parsing.text.v[Len(parsing.text.v)] = NewLine

\* main still waits for the piped input
StillReading == reading.pc = "reading" /\ reading.promise.state = "pending"

\* readStdin has returned a text
Returned == reading.promise.state = "resolved"

\* main goes on with what readStdin returned
Resumed == reading.pc = "continued"

\* C25: a SIGINT that comes while main waits for the piped input makes
\* readStdin return the text received so far; what readStdin has returned
\* does not change when chunks arrive later; main resumes with what
\* readStdin returned and keeps it; and once readStdin has returned to a
\* main that waits for it, main does resume.
C25_InterruptEndsRead ==
  /\ [][(StillReading /\ Sigint)
          => reading'.promise = Resolved(Value("string", reading.body))]_vars
  /\ [][Returned => reading'.promise = reading.promise]_vars
  /\ [][Continue => (Returned => reading'.given = reading.promise.value)]_vars
  /\ [][Resumed => reading'.given = reading.given]_vars
  /\ ((reading.pc = "reading" /\ Returned) ~> Resumed)

\* main has resumed with the text an interrupt cut off, and a chunk has
\* come after it
C25_Witness ==
  /\ reading.pc = "continued"
  /\ reading.signals = 1
  /\ reading.open
  /\ reading.given.type = "string"
  /\ Len(reading.given.v) > 0
  /\ Len(reading.body) > Len(reading.given.v)

====
